---- MODULE Spec2Model ----
(***************************************************************************)
(* A model of pkg/rdb/cgo_redis.go: the Go binding over the RDB decoder.   *)
(* The Go side (redisRio, RedisUnsafeSds, RedisObject, the typed objects   *)
(* and their iterators) is translated from the source.  The C side it      *)
(* calls through cgo (cgo_redis.c, the rio, the object codec) and the      *)
(* Loader behind the rio callbacks are not part of the source file; they   *)
(* are modelled from the specification's description of the wire format.   *)
(***************************************************************************)
EXTENDS Integers, Sequences, FiniteSets, TLC

VARIABLES
    loader,     \* the Loader behind the rio: input, offset, cksum, handed
    ret,        \* the outcome of the last redisRio call
    pv,         \* payload scenario: phase, source object, payload, outcome
    it,         \* iterator scenario: the object, the Go iterator handle, the C heap
    acc,        \* whole-value accessor scenario
    rc,         \* reference counting scenario
    sv          \* string view scenario

vars == <<loader, ret, pv, it, acc, rc, sv>>

(***************************************************************************)
(* Bounds of the model.                                                    *)
(***************************************************************************)
MaxInput == 3       \* bytes in a stream
MaxElems == 2       \* elements or pairs in a collection
MaxBufLen == 2      \* len(b) of a buffer handed to Read
MaxCalls == 4       \* caller's Next/Release calls on one iterator
MaxRefOps == 6      \* IncrRefCount/DecrRefCount calls on one object
MaxHolders == 4     \* holders of one object
MaxText == 2        \* bytes in a string value

(***************************************************************************)
(* Pointers.  A nil pointer is the empty tuple, a non-nil pointer the      *)
(* one-tuple of what it points to.                                         *)
(***************************************************************************)
Nil == <<>>
Ref(x) == <<x>>
Deref(p) == p[1]

\* F applied to the value of x: names the result of a call for the code after it.
Bind(x, F(_)) == F(x)

(***************************************************************************)
(* Bytes and CRC64 (Jones polynomial, reflected), eight bytes little       *)
(* endian: index 1 is the least significant byte.                          *)
(***************************************************************************)
NibXor == [a \in 0..15 |-> [b \in 0..15 |->
    LET bit(v, k) == (v \div (2^k)) % 2
    IN  ((bit(a,0) + bit(b,0)) % 2) + 2 * ((bit(a,1) + bit(b,1)) % 2)
      + 4 * ((bit(a,2) + bit(b,2)) % 2) + 8 * ((bit(a,3) + bit(b,3)) % 2)]]

Xor8(a, b) == 16 * NibXor[a \div 16][b \div 16] + NibXor[a % 16][b % 16]

Xor64(p, q) == [i \in 1..8 |-> Xor8(p[i], q[i])]

Crc64Poly == <<181, 201, 75, 172, 41, 147, 172, 149>>

Crc64Zero == <<0, 0, 0, 0, 0, 0, 0, 0>>

Shr1(c) == [i \in 1..8 |-> (c[i] \div 2) + (IF i < 8 THEN (c[i+1] % 2) * 128 ELSE 0)]

RECURSIVE Crc64Bits(_, _)
Crc64Bits(c, k) ==
    IF k = 0 THEN c
    ELSE Crc64Bits(IF c[1] % 2 = 1 THEN Xor64(Shr1(c), Crc64Poly) ELSE Shr1(c), k - 1)

Crc64Tab == [i \in 0..255 |-> Crc64Bits(<<i, 0, 0, 0, 0, 0, 0, 0>>, 8)]

Crc64Byte(c, b) ==
    Xor64(Crc64Tab[Xor8(c[1], b)], <<c[2], c[3], c[4], c[5], c[6], c[7], c[8], 0>>)

\* crc64(crc, s): the checksum crc carried on over the bytes of s.
RECURSIVE crc64(_, _)
crc64(c, s) ==
    IF s = <<>> \/ Len(c) # 8 THEN c ELSE crc64(Crc64Byte(c, Head(s)), Tail(s))

(***************************************************************************)
(* strconv.FormatInt(n, 10) and its inverse, over ASCII bytes.             *)
(***************************************************************************)
RECURSIVE FormatUint(_)
FormatUint(n) == IF n < 10 THEN <<48 + n>> ELSE Append(FormatUint(n \div 10), 48 + (n % 10))

FormatInt(n) == IF n < 0 THEN <<45>> \o FormatUint(0 - n) ELSE FormatUint(n)

RECURSIVE ParseUint(_, _)
ParseUint(s, a) == IF s = <<>> THEN a ELSE ParseUint(Tail(s), 10 * a + (Head(s) - 48))

IsDigits(s) == s # <<>> /\ \A i \in 1..Len(s) : s[i] \in 48..57

ParseInt(s) == IF s # <<>> /\ Head(s) = 45 THEN 0 - ParseUint(Tail(s), 0) ELSE ParseUint(s, 0)

(***************************************************************************)
(* Wire constants.                                                         *)
(***************************************************************************)
RDB_VERSION == 11
RDB_TYPE_STRING == 0
RDB_TYPE_LIST == 1
RDB_TYPE_SET == 2
RDB_TYPE_ZSET == 3
RDB_TYPE_HASH == 4
KnownTypes == (0..7) \cup (9..15)
ModelledTypes == {RDB_TYPE_STRING, RDB_TYPE_LIST, RDB_TYPE_SET, RDB_TYPE_ZSET, RDB_TYPE_HASH}

RDB_ENC_INT8 == 0
RDB_ENC_INT16 == 1
RDB_ENC_INT32 == 2

(***************************************************************************)
(* The Loader behind the rio callbacks (loader.onRead,                     *)
(* loader.onUpdateChecksum): a byte source with an offset, a running       *)
(* checksum, and the bytes it has handed out so far.                       *)
(***************************************************************************)
NewLoader(input) ==
    [input |-> input, offset |-> 0, cksum |-> Crc64Zero, handed |-> <<>>]

\* loader.onRead(buffer): all of len(buffer) bytes or nothing.
onRead(l, n) ==
    IF Len(l.input) - l.offset < n
    THEN [l |-> l, n |-> 0, bytes |-> <<>>]
    ELSE LET bytes == SubSeq(l.input, l.offset + 1, l.offset + n)
         IN  [l |-> [l EXCEPT !.offset = @ + n, !.handed = @ \o bytes],
              n |-> n, bytes |-> bytes]

\* loader.onUpdateChecksum(checksum): the new running checksum.
onUpdateChecksum(l, checksum) == [l EXCEPT !.cksum = checksum]

\* cgoRedisRioRead: the read callback, a buffer of exactly len bytes.
cgoRedisRioRead(l, len) == onRead(l, len)

cgoRedisRioUpdateChecksumDropped(l, checksum) == l

\* cgoRedisRioUpdateChecksum: the checksum callback.
cgoRedisRioUpdateChecksum(l, checksum) == onUpdateChecksum(l, checksum)

(***************************************************************************)
(* A stream as the C decoder sees it: the Loader's rio (kind "loader",     *)
(* reads go through the callbacks) or a memory buffer (kind "buffer").     *)
(* Every read returns [st, ok, val].                                       *)
(***************************************************************************)
BufferRio(bytes) ==
    [input |-> bytes, offset |-> 0, cksum |-> Crc64Zero, handed |-> <<>>, kind |-> "buffer"]

LoaderRio(l) ==
    [input |-> l.input, offset |-> l.offset, cksum |-> l.cksum, handed |-> l.handed,
     kind |-> "loader"]

LoaderOf(st) ==
    [input |-> st.input, offset |-> st.offset, cksum |-> st.cksum, handed |-> st.handed]

\* rioRead: the read callback, then the checksum callback over what was read.
rioRead(st, n) ==
    IF st.kind = "loader"
    THEN Bind(cgoRedisRioRead(LoaderOf(st), n), LAMBDA r :
            IF n > 0 /\ r.n = 0
            THEN [st |-> st, ok |-> FALSE, val |-> <<>>]
            ELSE [st |-> LoaderRio(cgoRedisRioUpdateChecksum(r.l, crc64(r.l.cksum, r.bytes))),
                  ok |-> TRUE, val |-> r.bytes])
    ELSE IF Len(st.input) - st.offset < n
         THEN [st |-> st, ok |-> FALSE, val |-> <<>>]
         ELSE [st |-> [st EXCEPT !.offset = @ + n], ok |-> TRUE,
               val |-> SubSeq(st.input, st.offset + 1, st.offset + n)]

Fail(st) == [st |-> st, ok |-> FALSE, val |-> Nil]
Done(st, val) == [st |-> st, ok |-> TRUE, val |-> val]

(***************************************************************************)
(* Values.  A RawValue is [ptr, val]: bytes behind a non-nil ptr, or a nil *)
(* ptr and the integer val.  An object is [type, encoding, data,           *)
(* refcount]; a collection's data is the sequence its iterator walks.      *)
(***************************************************************************)
OBJ_STRING == "OBJ_STRING"
OBJ_LIST == "OBJ_LIST"
OBJ_SET == "OBJ_SET"
OBJ_ZSET == "OBJ_ZSET"
OBJ_HASH == "OBJ_HASH"

BytesValue(bytes) == [ptr |-> Ref(bytes), val |-> 0]
IntValue(n) == [ptr |-> Nil, val |-> n]

\* The text of a RawValue: its bytes, or the decimal text of its integer.
TextOf(rv) == IF rv.ptr # Nil THEN Deref(rv.ptr) ELSE FormatInt(rv.val)

createObject(type, encoding, data) ==
    [type |-> type, encoding |-> encoding, data |-> data, refcount |-> 1]

createStringObject(rv) ==
    createObject(OBJ_STRING, IF rv.ptr = Nil THEN "ENCODING_INT" ELSE "ENCODING_RAW", rv)

(***************************************************************************)
(* Length and primitive codec (decoding).                                  *)
(***************************************************************************)
\* A signed integer of Len(bytes) bytes, little endian, two's complement.
RECURSIVE SignedLE(_)
SignedLE(bytes) ==
    IF Len(bytes) = 1
    THEN (IF bytes[1] >= 128 THEN bytes[1] - 256 ELSE bytes[1])
    ELSE bytes[1] + 256 * SignedLE(Tail(bytes))

RECURSIVE UnsignedBE(_, _)
UnsignedBE(bytes, a) ==
    IF bytes = <<>> THEN a ELSE UnsignedBE(Tail(bytes), 256 * a + Head(bytes))

LenResult(st, ok, isenc, val) == [st |-> st, ok |-> ok, isenc |-> isenc, val |-> val]

\* rdbLoadLen: [st, ok, isenc, val]; the top two bits of the first byte select the form.
rdbLoadLen(st) ==
    Bind(rioRead(st, 1), LAMBDA r :
        IF ~r.ok THEN LenResult(r.st, FALSE, FALSE, 0)
        ELSE Bind(r.val[1], LAMBDA b :
            CASE b \div 64 = 0 -> LenResult(r.st, TRUE, FALSE, b % 64)
              [] b \div 64 = 1 ->
                    Bind(rioRead(r.st, 1), LAMBDA q :
                        LenResult(q.st, q.ok, FALSE,
                                  IF q.ok THEN (b % 64) * 256 + q.val[1] ELSE 0))
              [] b \div 64 = 3 -> LenResult(r.st, TRUE, TRUE, b % 64)
              [] b \in {128, 129} ->
                    Bind(rioRead(r.st, IF b = 128 THEN 4 ELSE 8), LAMBDA q :
                        LenResult(q.st, q.ok, FALSE,
                                  IF q.ok THEN UnsignedBE(q.val, 0) ELSE 0))
              [] OTHER -> LenResult(r.st, FALSE, FALSE, 0)))

\* rdbLoadType: one byte, checked against the type table.
rdbLoadType(st) ==
    Bind(rioRead(st, 1), LAMBDA r :
        IF ~r.ok THEN Fail(r.st)
        ELSE IF r.val[1] \notin KnownTypes THEN Fail(r.st)
        ELSE Done(r.st, r.val[1]))

\* The integer of a special encoding: 1, 2 or 4 bytes.
rdbLoadIntegerObject(st, enctype) ==
    IF enctype \notin {RDB_ENC_INT8, RDB_ENC_INT16, RDB_ENC_INT32} THEN Fail(st)
    ELSE Bind(rioRead(st, CASE enctype = RDB_ENC_INT8 -> 1
                            [] enctype = RDB_ENC_INT16 -> 2
                            [] OTHER -> 4), LAMBDA q :
            IF q.ok THEN Done(q.st, IntValue(SignedLE(q.val))) ELSE Fail(q.st))

\* rdbLoadStringObject: a RawValue; an integer encoding allocates no bytes.
\* An LZF-compressed string (tag 3) is not modelled: no input has it.
rdbLoadString(st) ==
    Bind(rdbLoadLen(st), LAMBDA h :
        IF ~h.ok THEN Fail(h.st)
        ELSE IF h.isenc THEN rdbLoadIntegerObject(h.st, h.val)
        ELSE Bind(rioRead(h.st, h.val), LAMBDA q :
                IF q.ok THEN Done(q.st, BytesValue(q.val)) ELSE Fail(q.st)))

\* The number a score's text stands for (integral scores; anything else reads as 0).
ScoreOf(text) ==
    IF IsDigits(IF text # <<>> /\ Head(text) = 45 THEN Tail(text) ELSE text)
    THEN ParseInt(text) ELSE 0

\* A legacy ZSet score: a length-prefixed ASCII number.
rdbLoadScore(st) ==
    Bind(rioRead(st, 1), LAMBDA h :
        IF ~h.ok THEN Fail(h.st)
        ELSE Bind(rioRead(h.st, h.val[1]), LAMBDA q :
                IF ~q.ok THEN Fail(q.st) ELSE Done(q.st, ScoreOf(q.val))))

HasText(seq, text) == \E i \in 1..Len(seq) : TextOf(seq[i]) = text
HasKey(seq, text) == \E i \in 1..Len(seq) : TextOf(seq[i][1]) = text

\* n strings in a row; dedup drops a string whose text is already there.
RECURSIVE LoadStrings(_, _, _, _)
LoadStrings(st, n, dedup, out) ==
    IF n = 0 THEN Done(st, out)
    ELSE Bind(rdbLoadString(st), LAMBDA e :
            IF ~e.ok THEN Fail(e.st)
            ELSE LoadStrings(e.st, n - 1, dedup,
                             IF dedup /\ HasText(out, TextOf(e.val)) THEN out
                             ELSE Append(out, e.val)))

\* n (field, value) pairs; a repeated field is an inconsistency.
RECURSIVE LoadPairs(_, _, _)
LoadPairs(st, n, out) ==
    IF n = 0 THEN Done(st, out)
    ELSE Bind(rdbLoadString(st), LAMBDA k :
            IF ~k.ok THEN Fail(k.st)
            ELSE Bind(rdbLoadString(k.st), LAMBDA v :
                    IF ~v.ok THEN Fail(v.st)
                    ELSE IF HasKey(out, TextOf(k.val)) THEN Fail(v.st)
                    ELSE LoadPairs(v.st, n - 1, Append(out, <<k.val, v.val>>))))

\* n (member, score) pairs; a repeated member is dropped.
RECURSIVE LoadScored(_, _, _)
LoadScored(st, n, out) ==
    IF n = 0 THEN Done(st, out)
    ELSE Bind(rdbLoadString(st), LAMBDA k :
            IF ~k.ok THEN Fail(k.st)
            ELSE Bind(rdbLoadScore(k.st), LAMBDA v :
                    IF ~v.ok THEN Fail(v.st)
                    ELSE LoadScored(v.st, n - 1,
                                    IF HasKey(out, TextOf(k.val)) THEN out
                                    ELSE Append(out, <<k.val, v.val>>))))

\* The body of a collection: its count, then its elements.
LoadElements(typ, st) ==
    Bind(rdbLoadLen(st), LAMBDA h :
        IF ~h.ok \/ h.isenc THEN Fail(h.st)
        ELSE CASE typ = RDB_TYPE_LIST -> LoadStrings(h.st, h.val, FALSE, <<>>)
               [] typ = RDB_TYPE_SET -> LoadStrings(h.st, h.val, TRUE, <<>>)
               [] typ = RDB_TYPE_HASH -> LoadPairs(h.st, h.val, <<>>)
               [] typ = RDB_TYPE_ZSET -> LoadScored(h.st, h.val, <<>>)
               [] OTHER -> Fail(h.st))

\* rdbLoadObject(type): one branch per type code; val is the object.
rdbLoadObject(typ, st) ==
    IF typ = RDB_TYPE_STRING
    THEN Bind(rdbLoadString(st), LAMBDA e :
            IF e.ok THEN Done(e.st, createStringObject(e.val)) ELSE Fail(e.st))
    ELSE IF typ \notin ModelledTypes THEN Fail(st)
    ELSE Bind(LoadElements(typ, st), LAMBDA b :
            IF ~b.ok THEN Fail(b.st)
            ELSE Done(b.st,
                      CASE typ = RDB_TYPE_LIST -> createObject(OBJ_LIST, "ENCODING_QUICKLIST", b.val)
                        [] typ = RDB_TYPE_SET -> createObject(OBJ_SET, "ENCODING_HT", b.val)
                        [] typ = RDB_TYPE_HASH -> createObject(OBJ_HASH, "ENCODING_HT", b.val)
                        [] OTHER -> createObject(OBJ_ZSET, "ENCODING_SKIPLIST", b.val)))

(***************************************************************************)
(* The C entry points of the rio, as cgo sees them: 0 on success, non-zero *)
(* on failure; an object pointer, nil on failure.                          *)
(***************************************************************************)
redisRioRead(st, n) ==
    Bind(rioRead(st, n), LAMBDA r :
        [st |-> r.st, ret |-> IF r.ok THEN 0 ELSE -1, val |-> r.val])

redisRioLoadLen(st) ==
    Bind(rdbLoadLen(st), LAMBDA r :
        [st |-> r.st, ret |-> IF r.ok /\ ~r.isenc THEN 0 ELSE -1, val |-> r.val])

redisRioLoadType(st) ==
    Bind(rdbLoadType(st), LAMBDA r :
        [st |-> r.st, ret |-> IF r.ok THEN 0 ELSE -1, val |-> r.val])

redisRioLoadObject(st, typ) ==
    Bind(rdbLoadObject(typ, st), LAMBDA r :
        [st |-> r.st, obj |-> IF r.ok THEN Ref(r.val) ELSE Nil])

redisRioLoadStringObject(st) ==
    Bind(rdbLoadString(st), LAMBDA r :
        [st |-> r.st, obj |-> IF r.ok THEN Ref(createStringObject(r.val)) ELSE Nil])

(***************************************************************************)
(* redisRio: the Go methods.  Each returns [l, err, panic, val, cfail]:    *)
(* the Loader afterwards, the error returned or panicked with, whether it  *)
(* panicked, the value returned (Nil when it did not return one), and      *)
(* whether the C call reported failure.                                    *)
(***************************************************************************)
Returned(st, val) ==
    [l |-> LoaderOf(st), err |-> "nil", panic |-> FALSE, val |-> val, cfail |-> FALSE]

\* log.PanicErrorf(err, ...)
PanicErrorf(st, err) ==
    [l |-> LoaderOf(st), err |-> err, panic |-> TRUE, val |-> Nil, cfail |-> TRUE]

\* &RedisObject{obj}
RedisObject(obj) == Ref([obj |-> obj])

\* a slice header: Len and Cap
Buffers == {[len |-> n, cap |-> n + k] : n \in 0..MaxBufLen, k \in 0..1}

Read(l, b) ==
    Bind(redisRioRead(LoaderRio(l), b.cap), LAMBDA r :
        IF r.ret # 0
        THEN [l |-> LoaderOf(r.st), err |-> "UnexpectedEOF", panic |-> FALSE,
              val |-> Nil, cfail |-> TRUE]
        ELSE Returned(r.st, r.val))

LoadLen(l) ==
    Bind(redisRioLoadLen(LoaderRio(l)), LAMBDA r :
        IF r.ret # 0 THEN PanicErrorf(r.st, "UnexpectedEOF") ELSE Returned(r.st, r.val))

LoadTypeUnchecked(l) ==
    Bind(redisRioLoadType(LoaderRio(l)), LAMBDA r :
        [l |-> LoaderOf(r.st), err |-> "nil", panic |-> FALSE,
         val |-> IF r.ret # 0 THEN 0 ELSE r.val, cfail |-> r.ret # 0])

LoadType(l) ==
    Bind(redisRioLoadType(LoaderRio(l)), LAMBDA r :
        IF r.ret # 0 THEN PanicErrorf(r.st, "UnexpectedEOF") ELSE Returned(r.st, r.val))

LoadObjectUnchecked(l, typ) ==
    Bind(redisRioLoadObject(LoaderRio(l), typ), LAMBDA r :
        [l |-> LoaderOf(r.st), err |-> "nil", panic |-> FALSE,
         val |-> RedisObject(r.obj), cfail |-> r.obj = Nil])

LoadObject(l, typ) ==
    Bind(redisRioLoadObject(LoaderRio(l), typ), LAMBDA r :
        IF r.obj = Nil THEN PanicErrorf(r.st, "UnexpectedEOF")
        ELSE Returned(r.st, RedisObject(r.obj)))

LoadStringObject(l) ==
    Bind(redisRioLoadStringObject(LoaderRio(l)), LAMBDA r :
        IF r.obj = Nil THEN PanicErrorf(r.st, "UnexpectedEOF")
        ELSE Returned(r.st, RedisObject(r.obj)))

(***************************************************************************)
(* RedisUnsafeSds: [Ptr, Len, Value].  C memory is read through           *)
(* unsafeCastToSlice (then copied by string(...)) or unsafeCastToString    *)
(* (a borrowed view of the same bytes).                                    *)
(***************************************************************************)
RedisUnsafeSds(ptr, len, value) == [Ptr |-> ptr, Len |-> len, Value |-> value]

unsafeCastToSlice(buf, len) == SubSeq(Deref(buf), 1, len)

unsafeCastToString(buf, len) == SubSeq(Deref(buf), 1, len)

String(p) ==
    IF p.Ptr # Nil THEN unsafeCastToSlice(p.Ptr, p.Len) ELSE FormatInt(p.Value)

UnsafeStringPtrOnly(p) ==
    IF p.Ptr # Nil THEN unsafeCastToString(p.Ptr, p.Len) ELSE <<>>

UnsafeString(p) ==
    IF p.Ptr # Nil THEN unsafeCastToString(p.Ptr, p.Len) ELSE FormatInt(p.Value)

\* What the C accessors write through (&ptr, &len, &val) for a RawValue.
SdsFields(rv) ==
    RedisUnsafeSds(rv.ptr, IF rv.ptr # Nil THEN Len(Deref(rv.ptr)) ELSE 0, rv.val)

\* redisStringObjectUnsafeSds(o.obj, &len, &val)
redisStringObjectUnsafeSds(o) == SdsFields(o.data)

loadUnsafeSds(o) ==
    Bind(redisStringObjectUnsafeSds(o), LAMBDA f : RedisUnsafeSds(f.Ptr, f.Len, f.Value))

StringObjectString(o) == String(loadUnsafeSds(o))

StringObjectUnsafeString(o) == UnsafeString(loadUnsafeSds(o))

(***************************************************************************)
(* Iterators.  The Go handle holds the address of a C iterator and never   *)
(* changes it; a cell is what that address holds: [data, pos, live,        *)
(* mapped, log].  Release frees the cell: its memory stays as it was until *)
(* the allocator reuses it.  log lists the C calls made on the cell.       *)
(***************************************************************************)
redisObjectNewIterator(o) ==
    [data |-> o.data, pos |-> 1, live |-> TRUE, mapped |-> TRUE, log |-> <<"new">>]

redisIteratorRelease(c) ==
    [c EXCEPT !.live = FALSE,
              !.log = Append(@, IF c.live THEN "release" ELSE "release-freed")]

\* [c, ret, elem, crashed]: ret is 0 and elem the element, or ret is non-zero.
redisIteratorNext(c) ==
    Bind([c EXCEPT !.log = Append(@, IF c.live THEN "next" ELSE "next-freed")], LAMBDA d :
        IF ~c.mapped THEN [c |-> d, ret |-> -1, elem |-> Nil, crashed |-> TRUE]
        ELSE IF c.pos > Len(c.data) THEN [c |-> d, ret |-> -1, elem |-> Nil, crashed |-> FALSE]
        ELSE [c |-> [d EXCEPT !.pos = @ + 1], ret |-> 0, elem |-> c.data[c.pos],
              crashed |-> FALSE])

NewIterator(o) == redisObjectNewIterator(o)

ReleaseDropped(c) == c

Release(c) == redisIteratorRelease(c)

\* &RedisUnsafeSds{ptr, int(len), int64(val)}
NewSds(rv) == Bind(SdsFields(rv), LAMBDA f : Ref(RedisUnsafeSds(f.Ptr, f.Len, f.Value)))

\* RedisListIterator.Next: [c, sds, crashed], sds nil when exhausted.
ListNext(c) ==
    Bind(redisIteratorNext(c), LAMBDA r :
        IF r.ret # 0 THEN [c |-> r.c, sds |-> Nil, crashed |-> r.crashed]
        ELSE [c |-> r.c, sds |-> NewSds(r.elem), crashed |-> FALSE])

\* RedisSetIterator.Next
SetNext(c) ==
    Bind(redisIteratorNext(c), LAMBDA r :
        IF r.ret # 0 THEN [c |-> r.c, sds |-> Nil, crashed |-> r.crashed]
        ELSE [c |-> r.c, sds |-> NewSds(r.elem), crashed |-> FALSE])

\* RedisHashIterator.Next: [c, key, value, crashed], both nil when exhausted.
HashNext(c) ==
    Bind(redisIteratorNext(c), LAMBDA r :
        IF r.ret # 0 THEN [c |-> r.c, key |-> Nil, value |-> Nil, crashed |-> r.crashed]
        ELSE [c |-> r.c, key |-> NewSds(r.elem[1]), value |-> NewSds(r.elem[2]),
              crashed |-> FALSE])

\* RedisZsetIterator.Next: [c, key, score, crashed], key nil when exhausted.
ZsetNext(c) ==
    Bind(redisIteratorNext(c), LAMBDA r :
        IF r.ret # 0 THEN [c |-> r.c, key |-> Nil, score |-> 0, crashed |-> r.crashed]
        ELSE [c |-> r.c, key |-> NewSds(r.elem[1]), score |-> r.elem[2],
              crashed |-> FALSE])

(***************************************************************************)
(* The whole-value accessors.  Each returns [val, c, yielded]: the value   *)
(* returned, the iterator's cell when it returns, and what Next yielded.   *)
(***************************************************************************)
MapPut(m, k, v) == [x \in (DOMAIN m) \cup {k} |-> IF x = k THEN v ELSE m[x]]
EmptyMap == [x \in {} |-> 0]

\* sds.String() or sds.UnsafeString(), as the accessor's variant asks.
View(unsafe, sds) == IF unsafe THEN UnsafeString(sds) ELSE String(sds)

RECURSIVE ListLoop(_, _, _, _)
ListLoop(c, list, yielded, unsafe) ==
    Bind(ListNext(c), LAMBDA r :
        IF r.sds # Nil
        THEN ListLoop(r.c, Append(list, View(unsafe, Deref(r.sds))), Append(yielded, Deref(r.sds)), unsafe)
        ELSE [val |-> list, c |-> Release(r.c), yielded |-> yielded])

ListStrings(o) == ListLoop(NewIterator(o), <<>>, <<>>, FALSE)

ListUnsafeStrings(o) == ListLoop(NewIterator(o), <<>>, <<>>, TRUE)

RECURSIVE HashLoop(_, _, _, _)
HashLoop(c, hash, yielded, unsafe) ==
    Bind(HashNext(c), LAMBDA r :
        IF r.key # Nil
        THEN HashLoop(r.c, MapPut(hash, View(unsafe, Deref(r.key)), View(unsafe, Deref(r.value))),
                      Append(yielded, <<Deref(r.key), Deref(r.value)>>), unsafe)
        ELSE [val |-> hash, c |-> Release(r.c), yielded |-> yielded])

HashMap(o) == HashLoop(NewIterator(o), EmptyMap, <<>>, FALSE)

HashUnsafeMap(o) == HashLoop(NewIterator(o), EmptyMap, <<>>, TRUE)

RECURSIVE ZsetLoop(_, _, _, _)
ZsetLoop(c, zset, yielded, unsafe) ==
    Bind(ZsetNext(c), LAMBDA r :
        IF r.key # Nil
        THEN ZsetLoop(r.c, MapPut(zset, View(unsafe, Deref(r.key)), r.score),
                      Append(yielded, <<Deref(r.key), r.score>>), unsafe)
        ELSE [val |-> zset, c |-> Release(r.c), yielded |-> yielded])

ZsetMap(o) == ZsetLoop(NewIterator(o), EmptyMap, <<>>, FALSE)

ZsetUnsafeMap(o) == ZsetLoop(NewIterator(o), EmptyMap, <<>>, TRUE)

RECURSIVE SetLoop(_, _, _, _)
SetLoop(c, set, yielded, unsafe) ==
    Bind(SetNext(c), LAMBDA r :
        IF r.sds # Nil
        THEN SetLoop(r.c, MapPut(set, View(unsafe, Deref(r.sds)), TRUE),
                     Append(yielded, Deref(r.sds)), unsafe)
        ELSE [val |-> set, c |-> Release(r.c), yielded |-> yielded])

SetMap(o) == SetLoop(NewIterator(o), EmptyMap, <<>>, FALSE)

SetUnsafeMap(o) == SetLoop(NewIterator(o), EmptyMap, <<>>, TRUE)

(***************************************************************************)
(* Dump payload codec: [type code][body][version, 2 bytes LE][CRC64, 8     *)
(* bytes LE].                                                              *)
(***************************************************************************)
RECURSIVE UnsignedBytesBE(_, _)
UnsignedBytesBE(n, k) ==
    IF k = 0 THEN <<>> ELSE Append(UnsignedBytesBE(n \div 256, k - 1), n % 256)

\* The k low bytes of n, little endian, two's complement.
RECURSIVE SignedBytesLE(_, _)
SignedBytesLE(n, k) ==
    IF k = 0 THEN <<>> ELSE <<n % 256>> \o SignedBytesLE(n \div 256, k - 1)

\* rdbSaveLen: the smallest size class that holds n.
rdbSaveLen(n) ==
    IF n < 64 THEN <<n>>
    ELSE IF n < 16384 THEN <<64 + (n \div 256), n % 256>>
    ELSE <<128>> \o UnsignedBytesBE(n, 4)

\* rdbSaveRawString / rdbSaveLongLongAsStringObject
rdbSaveString(rv) ==
    IF rv.ptr # Nil THEN rdbSaveLen(Len(Deref(rv.ptr))) \o Deref(rv.ptr)
    ELSE IF rv.val >= -128 /\ rv.val <= 127 THEN <<192 + RDB_ENC_INT8>> \o SignedBytesLE(rv.val, 1)
    ELSE IF rv.val >= -32768 /\ rv.val <= 32767
         THEN <<192 + RDB_ENC_INT16>> \o SignedBytesLE(rv.val, 2)
    ELSE <<192 + RDB_ENC_INT32>> \o SignedBytesLE(rv.val, 4)

rdbSaveScore(score) == <<Len(FormatInt(score))>> \o FormatInt(score)

RECURSIVE SaveElements(_, _)
SaveElements(type, data) ==
    IF data = <<>> THEN <<>>
    ELSE (CASE type \in {OBJ_LIST, OBJ_SET} -> rdbSaveString(Head(data))
            [] type = OBJ_HASH -> rdbSaveString(Head(data)[1]) \o rdbSaveString(Head(data)[2])
            [] OTHER -> rdbSaveString(Head(data)[1]) \o rdbSaveScore(Head(data)[2]))
         \o SaveElements(type, Tail(data))

rdbSaveObjectType(o) ==
    CASE o.type = OBJ_STRING -> RDB_TYPE_STRING
      [] o.type = OBJ_LIST -> RDB_TYPE_LIST
      [] o.type = OBJ_SET -> RDB_TYPE_SET
      [] o.type = OBJ_HASH -> RDB_TYPE_HASH
      [] OTHER -> RDB_TYPE_ZSET

rdbSaveObject(o) ==
    IF o.type = OBJ_STRING THEN rdbSaveString(o.data)
    ELSE rdbSaveLen(Len(o.data)) \o SaveElements(o.type, o.data)

\* The footer over a serialized object: version, then CRC64 of all before it.
DumpFooter(bytes) ==
    Bind(bytes \o <<RDB_VERSION % 256, RDB_VERSION \div 256>>, LAMBDA versioned :
        versioned \o crc64(Crc64Zero, versioned))

\* redisObjectCreateDumpPayload(o.obj, &len): [ptr, len]
redisObjectCreateDumpPayload(o) ==
    Bind(DumpFooter(<<rdbSaveObjectType(o)>> \o rdbSaveObject(o)), LAMBDA sds :
        [ptr |-> Ref(sds), len |-> Len(sds)])

\* verifyDumpPayload: the version is supported and the checksum matches.
verifyDumpPayload(p) ==
    /\ Len(p) >= 10
    /\ p[Len(p) - 9] + 256 * p[Len(p) - 8] <= RDB_VERSION
    /\ crc64(Crc64Zero, SubSeq(p, 1, Len(p) - 8)) = SubSeq(p, Len(p) - 7, Len(p))

\* redisObjectDecodeFromPayload(buf, len): an object pointer, nil on failure.
redisObjectDecodeFromPayload(data, len) ==
    Bind(SubSeq(data, 1, len), LAMBDA p :
        IF ~verifyDumpPayload(p) THEN Nil
        ELSE Bind(rdbLoadType(BufferRio(p)), LAMBDA t :
                IF ~t.ok THEN Nil
                ELSE Bind(rdbLoadObject(t.val, t.st), LAMBDA r :
                        IF r.ok THEN Ref(r.val) ELSE Nil)))

CreateDumpPayloadUnsafeShort(o) ==
    Bind(redisObjectCreateDumpPayload(o), LAMBDA r : RedisUnsafeSds(r.ptr, r.len - 1, 0))

CreateDumpPayloadUnsafe(o) ==
    Bind(redisObjectCreateDumpPayload(o), LAMBDA r : RedisUnsafeSds(r.ptr, r.len, 0))

\* the copy is taken before the sds is released
CreateDumpPayload(o) == String(CreateDumpPayloadUnsafe(o))

\* [err, panic, val, cfail]; buf is a slice [data, len, cap]
DecodeFromPayloadUnchecked(buf) ==
    Bind(redisObjectDecodeFromPayload(buf.data, buf.len), LAMBDA obj :
        [err |-> "nil", panic |-> FALSE, val |-> RedisObject(obj), cfail |-> obj = Nil])

DecodeFromPayload(buf) ==
    Bind(redisObjectDecodeFromPayload(buf.data, buf.len), LAMBDA obj :
        IF obj = Nil
        THEN [err |-> "Decode From Payload failed.", panic |-> TRUE, val |-> Nil,
              cfail |-> TRUE]
        ELSE [err |-> "nil", panic |-> FALSE, val |-> RedisObject(obj), cfail |-> FALSE])

\* The logical content of an object, as the typed accessors give it.
Content(o) ==
    CASE o.type = OBJ_STRING -> StringObjectString(o)
      [] o.type = OBJ_LIST -> ListStrings(o).val
      [] o.type = OBJ_HASH -> HashMap(o).val
      [] o.type = OBJ_ZSET -> ZsetMap(o).val
      [] OTHER -> SetMap(o).val

(***************************************************************************)
(* The stream scenario: one Loader over an input, and a caller that makes  *)
(* redisRio calls until one panics.                                        *)
(***************************************************************************)
ByteSet == {0, 1, 2, 64, 97, 192}

RECURSIVE SeqsUpTo(_, _)
SeqsUpTo(S, n) ==
    IF n = 0 THEN {<<>>}
    ELSE Bind(SeqsUpTo(S, n - 1), LAMBDA shorter :
            shorter \cup {Append(s, x) : s \in {t \in shorter : Len(t) = n - 1}, x \in S})

Idle == [phase |-> "idle"]

Called(op, arg, before, r) ==
    [op |-> op, arg |-> arg, before |-> before, err |-> r.err, panic |-> r.panic,
     val |-> r.val, cfail |-> r.cfail]

NoCall ==
    [op |-> "none", arg |-> Nil, before |-> Nil, err |-> "nil", panic |-> FALSE,
     val |-> Nil, cfail |-> FALSE]

InitRio ==
    /\ \E input \in SeqsUpTo(ByteSet, MaxInput) : loader = NewLoader(input)
    /\ ret = NoCall
    /\ pv = Idle /\ it = Idle /\ acc = Idle /\ rc = Idle /\ sv = Idle

Call(op, arg, r) ==
    /\ loader' = r.l
    /\ ret' = Called(op, arg, loader, r)
    /\ UNCHANGED <<pv, it, acc, rc, sv>>

CallRead ==
    /\ loader # Idle /\ ~ret.panic
    /\ \E b \in Buffers : Call("Read", b, Read(loader, b))

CallLoadLen ==
    /\ loader # Idle /\ ~ret.panic
    /\ Call("LoadLen", Nil, LoadLen(loader))

CallLoadType ==
    /\ loader # Idle /\ ~ret.panic
    /\ Call("LoadType", Nil, LoadType(loader))

CallLoadObject ==
    /\ loader # Idle /\ ~ret.panic
    /\ \E typ \in ModelledTypes : Call("LoadObject", typ, LoadObject(loader, typ))

CallLoadStringObject ==
    /\ loader # Idle /\ ~ret.panic
    /\ Call("LoadStringObject", Nil, LoadStringObject(loader))

NextRio == CallRead \/ CallLoadLen \/ CallLoadType \/ CallLoadObject \/ CallLoadStringObject

SpecRio == InitRio /\ [][NextRio]_vars

\* The bytes the stream still held before the last call.
RemainingBefore == Len(ret.before.input) - ret.before.offset

(***************************************************************************)
(* C5: in every state of a stream the checksum is the CRC64 of exactly the *)
(* bytes handed out by successful reads, in input order with no gaps, and  *)
(* the offset is their count.                                              *)
(***************************************************************************)
C5_ChecksumCoversHanded ==
    /\ loader.cksum = crc64(Crc64Zero, loader.handed)
    /\ loader.offset = Len(loader.handed)
    /\ loader.handed = SubSeq(loader.input, 1, loader.offset)

C5_Witness ==
    /\ ret.op = "LoadObject" /\ ~ret.panic
    /\ loader.offset >= 3
    /\ loader.cksum # Crc64Zero

(***************************************************************************)
(* C10 (as claimed): Read(b) asks for exactly len(b) bytes: UnexpectedEOF  *)
(* iff fewer than len(b) remain; on success exactly len(b) bytes written   *)
(* and consumed, whatever b's capacity.                                    *)
(***************************************************************************)
C10_ReadExactlyLen ==
    ret.op = "Read" =>
        /\ (ret.err = "UnexpectedEOF") <=> (RemainingBefore < ret.arg.len)
        /\ ret.err = "nil" =>
            /\ Len(ret.val) = ret.arg.len
            /\ loader.offset - ret.before.offset = ret.arg.len

ElemSet == {BytesValue(<<97>>), BytesValue(<<53>>), IntValue(5), IntValue(-129)}
KeySet == {BytesValue(<<97>>), BytesValue(<<53>>), IntValue(5)}
ValSet == {BytesValue(<<>>), IntValue(70000)}
ScoreSet == {0, -12}
StringSet == ElemSet \cup ValSet \cup {IntValue(12345)}

NoDupText(seq) == \A i, j \in 1..Len(seq) : TextOf(seq[i]) = TextOf(seq[j]) => i = j
NoDupKey(seq) == \A i, j \in 1..Len(seq) : TextOf(seq[i][1]) = TextOf(seq[j][1]) => i = j

Lists == {createObject(OBJ_LIST, "ENCODING_QUICKLIST", d) : d \in SeqsUpTo(ElemSet, MaxElems)}
Sets == {createObject(OBJ_SET, "ENCODING_HT", d) :
            d \in {x \in SeqsUpTo(ElemSet, MaxElems) : NoDupText(x)}}
Hashes == {createObject(OBJ_HASH, "ENCODING_HT", d) :
            d \in {x \in SeqsUpTo(KeySet \X ValSet, MaxElems) : NoDupKey(x)}}
Zsets == {createObject(OBJ_ZSET, "ENCODING_SKIPLIST", d) :
            d \in {x \in SeqsUpTo(KeySet \X ScoreSet, MaxElems) : NoDupKey(x)}}
Strings == {createStringObject(rv) : rv \in StringSet}
Collections == Lists \cup Sets \cup Hashes \cup Zsets
Objects == Strings \cup Collections

\* The orders in which a rebuilt object's iterator may walk its elements: a
\* list keeps its order, a hash table or skiplist has its own.
Layouts(o) ==
    IF o.type \in {OBJ_STRING, OBJ_LIST} THEN {o}
    ELSE {[o EXCEPT !.data = [i \in 1..Len(o.data) |-> o.data[f[i]]]] :
            f \in {g \in [1..Len(o.data) -> 1..Len(o.data)] :
                        \A i, j \in 1..Len(o.data) : g[i] = g[j] => i = j}}

\* Bit k (0..63) of the trailing checksum flipped.
FlipBit(payload, k) ==
    [payload EXCEPT ![Len(payload) - 7 + (k \div 8)] = Xor8(@, 2^(k % 8))]

NoResult == [err |-> "nil", panic |-> FALSE, val |-> Nil, cfail |-> FALSE]

InitPayload ==
    /\ \/ \E o \in Objects :
            pv = [phase |-> "start", obj |-> Ref(o), payload |-> <<>>, flipped |-> -1,
                  res |-> NoResult]
       \/ \E body \in SeqsUpTo(ByteSet, MaxInput) :
            pv = [phase |-> "dumped", obj |-> Nil, payload |-> DumpFooter(body),
                  flipped |-> -1, res |-> NoResult]
    /\ loader = Idle /\ ret = NoCall
    /\ it = Idle /\ acc = Idle /\ rc = Idle /\ sv = Idle

DoCreateDumpPayload ==
    /\ pv.phase = "start"
    /\ pv' = [pv EXCEPT !.phase = "dumped", !.payload = CreateDumpPayload(Deref(pv.obj))]
    /\ UNCHANGED <<loader, ret, it, acc, rc, sv>>

FlipChecksumBit ==
    /\ pv.phase = "dumped" /\ pv.obj # Nil
    /\ \E k \in 0..63 :
        pv' = [pv EXCEPT !.phase = "corrupted", !.payload = FlipBit(pv.payload, k),
                         !.flipped = k]
    /\ UNCHANGED <<loader, ret, it, acc, rc, sv>>

\* The slice handed over may be cut from a longer array.
DoDecodeFromPayload ==
    /\ pv.phase \in {"dumped", "corrupted"}
    /\ \E spare \in {<<>>, <<0>>} :
        LET r == DecodeFromPayload([data |-> pv.payload \o spare, len |-> Len(pv.payload),
                                    cap |-> Len(pv.payload) + Len(spare)])
        IN  IF r.val = Nil \/ Deref(r.val).obj = Nil
            THEN pv' = [pv EXCEPT !.phase = "decoded", !.res = r]
            ELSE \E o \in Layouts(Deref(Deref(r.val).obj)) :
                    pv' = [pv EXCEPT !.phase = "decoded",
                                     !.res = [r EXCEPT !.val = RedisObject(Ref(o))]]
    /\ UNCHANGED <<loader, ret, it, acc, rc, sv>>

NextPayload == DoCreateDumpPayload \/ FlipChecksumBit \/ DoDecodeFromPayload

SpecPayload == InitPayload /\ [][NextPayload]_vars

\* The object behind a *RedisObject handle.
ObjectOf(handle) == Deref(Deref(handle).obj)

(***************************************************************************)
(* C1: decoding the dump payload of a String, List, Hash, ZSet or Set      *)
(* succeeds and gives an object of the same type and the same logical      *)
(* content: the same texts in the same order for a List, the same mapping  *)
(* or member set, whatever the iteration order, for the others.            *)
(***************************************************************************)
C1_RoundTrip ==
    (pv.phase = "decoded" /\ pv.obj # Nil /\ pv.flipped = -1) =>
        /\ ~pv.res.panic
        /\ pv.res.val # Nil
        /\ Deref(pv.res.val).obj # Nil
        /\ ObjectOf(pv.res.val).type = Deref(pv.obj).type
        /\ Content(ObjectOf(pv.res.val)) = Content(Deref(pv.obj))

C1_Witness ==
    /\ pv.phase = "decoded" /\ pv.obj # Nil /\ pv.flipped = -1
    /\ Deref(pv.obj).type = OBJ_HASH
    /\ Len(Deref(pv.obj).data) = 2
    /\ ~pv.res.panic
    /\ ObjectOf(pv.res.val).data # Deref(pv.obj).data

InitDecode == InitRio \/ InitPayload

NextDecode == NextRio \/ NextPayload

SpecDecode == InitDecode /\ [][NextDecode]_vars

IsRawValue(rv) ==
    \/ rv.ptr = Nil
    \/ Len(rv.ptr) = 1 /\ \A i \in 1..Len(Deref(rv.ptr)) : Deref(rv.ptr)[i] \in 0..255

\* A complete object: every element in place, no repeated member or field.
FullyBuilt(o) ==
    /\ o.refcount = 1
    /\ CASE o.type = OBJ_STRING -> IsRawValue(o.data)
         [] o.type = OBJ_LIST -> \A i \in 1..Len(o.data) : IsRawValue(o.data[i])
         [] o.type = OBJ_SET ->
                NoDupText(o.data) /\ \A i \in 1..Len(o.data) : IsRawValue(o.data[i])
         [] o.type = OBJ_HASH ->
                /\ NoDupKey(o.data)
                /\ \A i \in 1..Len(o.data) : IsRawValue(o.data[i][1]) /\ IsRawValue(o.data[i][2])
         [] o.type = OBJ_ZSET ->
                /\ NoDupKey(o.data)
                /\ \A i \in 1..Len(o.data) : IsRawValue(o.data[i][1]) /\ o.data[i][2] \in Int
         [] OTHER -> FALSE

AllOrNothing(r) ==
    /\ r.cfail => (r.panic /\ r.val = Nil)
    /\ r.val # Nil => (~r.cfail /\ Deref(r.val).obj # Nil /\ FullyBuilt(ObjectOf(r.val)))
    /\ r.val = Nil <=> r.panic

(***************************************************************************)
(* C4: LoadObject, LoadStringObject and DecodeFromPayload either return a  *)
(* fully built object or fail: when the underlying decode reports failure  *)
(* the call panics and hands no RedisObject to the caller.                 *)
(***************************************************************************)
C4_DecodeAllOrNothing ==
    /\ ret.op \in {"LoadObject", "LoadStringObject"} => AllOrNothing(ret)
    /\ (pv.phase = "decoded") => AllOrNothing(pv.res)

C4_Witness ==
    /\ ret.op = "LoadObject" /\ ret.arg = RDB_TYPE_HASH
    /\ ret.cfail /\ ret.panic
    /\ loader.offset = 2

(***************************************************************************)
(* The iterator scenario: a caller makes an iterator over a collection and *)
(* calls Next and Release in any order; memory freed by Release may be     *)
(* reused by the allocator at any time.                                    *)
(***************************************************************************)
InitIter ==
    /\ \E o \in Collections :
        it = [phase |-> "obj", obj |-> o, cell |-> Nil, calls |-> 0, done |-> FALSE,
              last |-> [op |-> "none", afterDone |-> FALSE, exhausted |-> FALSE,
                        crashed |-> FALSE, onFreed |-> FALSE]]
    /\ loader = Idle /\ ret = NoCall
    /\ pv = Idle /\ acc = Idle /\ rc = Idle /\ sv = Idle

DoNewIterator ==
    /\ it.phase = "obj"
    /\ it' = [it EXCEPT !.phase = "iter", !.cell = NewIterator(it.obj)]
    /\ UNCHANGED <<loader, ret, pv, acc, rc, sv>>

\* Next of the object's iterator kind: [c, exhausted, crashed].
NextOf(type, c) ==
    CASE type = OBJ_LIST ->
            Bind(ListNext(c), LAMBDA r :
                [c |-> r.c, exhausted |-> r.sds = Nil, crashed |-> r.crashed])
      [] type = OBJ_SET ->
            Bind(SetNext(c), LAMBDA r :
                [c |-> r.c, exhausted |-> r.sds = Nil, crashed |-> r.crashed])
      [] type = OBJ_HASH ->
            Bind(HashNext(c), LAMBDA r :
                [c |-> r.c, exhausted |-> r.key = Nil, crashed |-> r.crashed])
      [] OTHER ->
            Bind(ZsetNext(c), LAMBDA r :
                [c |-> r.c, exhausted |-> r.key = Nil, crashed |-> r.crashed])

DoNext ==
    /\ it.phase = "iter" /\ it.calls < MaxCalls /\ ~it.last.crashed
    /\ LET r == NextOf(it.obj.type, it.cell)
       IN  it' = [it EXCEPT !.cell = r.c, !.calls = @ + 1,
                            !.done = @ \/ (r.exhausted /\ ~r.crashed),
                            !.last = [op |-> "Next", afterDone |-> it.done,
                                      exhausted |-> r.exhausted /\ ~r.crashed,
                                      crashed |-> r.crashed, onFreed |-> ~it.cell.live]]
    /\ UNCHANGED <<loader, ret, pv, acc, rc, sv>>

DoRelease ==
    /\ it.phase = "iter" /\ it.calls < MaxCalls /\ ~it.last.crashed
    /\ it' = [it EXCEPT !.cell = Release(it.cell), !.calls = @ + 1, !.done = TRUE,
                        !.last = [op |-> "Release", afterDone |-> it.done,
                                  exhausted |-> FALSE, crashed |-> FALSE,
                                  onFreed |-> ~it.cell.live]]
    /\ UNCHANGED <<loader, ret, pv, acc, rc, sv>>

\* The allocator hands the freed cell's memory to someone else.
HeapReuse ==
    /\ it.phase = "iter" /\ ~it.cell.live /\ ~it.last.crashed
    /\ \E data \in {<<>>, it.obj.data}, pos \in {1, 2}, mapped \in BOOLEAN :
        it' = [it EXCEPT !.cell = [@ EXCEPT !.data = data, !.pos = pos, !.mapped = mapped]]
    /\ UNCHANGED <<loader, ret, pv, acc, rc, sv>>

NextIter == DoNewIterator \/ DoNext \/ DoRelease \/ HeapReuse

SpecIter == InitIter /\ [][NextIter]_vars

(***************************************************************************)
(* C3 (as claimed): once Next has returned exhausted or Release has been   *)
(* called, every later Next returns exhausted and does not touch released  *)
(* iterator state.                                                         *)
(***************************************************************************)
C3_NextAfterDoneIsExhausted ==
    (it.phase = "iter" /\ it.last.op = "Next" /\ it.last.afterDone) =>
        (it.last.exhausted /\ ~it.last.crashed /\ ~it.last.onFreed)

(***************************************************************************)
(* The accessor scenario: one whole-value accessor call on a collection.   *)
(***************************************************************************)
InitAccessor ==
    /\ \E o \in Collections : acc = [phase |-> "obj", obj |-> o, name |-> "none", res |-> Nil]
    /\ loader = Idle /\ ret = NoCall
    /\ pv = Idle /\ it = Idle /\ rc = Idle /\ sv = Idle

Accessed(name, res) ==
    /\ acc' = [acc EXCEPT !.phase = "returned", !.name = name, !.res = res]
    /\ UNCHANGED <<loader, ret, pv, it, rc, sv>>

CallListStrings ==
    /\ acc.phase = "obj" /\ acc.obj.type = OBJ_LIST
    /\ Accessed("Strings", ListStrings(acc.obj))
CallListUnsafeStrings ==
    /\ acc.phase = "obj" /\ acc.obj.type = OBJ_LIST
    /\ Accessed("UnsafeStrings", ListUnsafeStrings(acc.obj))
CallHashMap ==
    /\ acc.phase = "obj" /\ acc.obj.type = OBJ_HASH
    /\ Accessed("Map", HashMap(acc.obj))
CallHashUnsafeMap ==
    /\ acc.phase = "obj" /\ acc.obj.type = OBJ_HASH
    /\ Accessed("UnsafeMap", HashUnsafeMap(acc.obj))
CallZsetMap ==
    /\ acc.phase = "obj" /\ acc.obj.type = OBJ_ZSET
    /\ Accessed("Map", ZsetMap(acc.obj))
CallZsetUnsafeMap ==
    /\ acc.phase = "obj" /\ acc.obj.type = OBJ_ZSET
    /\ Accessed("UnsafeMap", ZsetUnsafeMap(acc.obj))
CallSetMap ==
    /\ acc.phase = "obj" /\ acc.obj.type = OBJ_SET
    /\ Accessed("Map", SetMap(acc.obj))
CallSetUnsafeMap ==
    /\ acc.phase = "obj" /\ acc.obj.type = OBJ_SET
    /\ Accessed("UnsafeMap", SetUnsafeMap(acc.obj))

NextAccessor ==
    \/ CallListStrings \/ CallListUnsafeStrings
    \/ CallHashMap \/ CallHashUnsafeMap
    \/ CallZsetMap \/ CallZsetUnsafeMap
    \/ CallSetMap \/ CallSetUnsafeMap

SpecAccessor == InitAccessor /\ [][NextAccessor]_vars

\* The C calls of one drain that yielded n elements: one new, n + 1 next, one release.
DrainLog(n) == <<"new">> \o [i \in 1..(n + 1) |-> "next"] \o <<"release">>

\* The last thing yielded under key text k.
LastYielded(yielded, k) ==
    yielded[CHOOSE i \in 1..Len(yielded) :
                /\ TextOf([ptr |-> yielded[i][1].Ptr, val |-> yielded[i][1].Value]) = k
                /\ \A j \in (i + 1)..Len(yielded) :
                        TextOf([ptr |-> yielded[j][1].Ptr, val |-> yielded[j][1].Value]) # k]

SdsText(sds) == TextOf([ptr |-> sds.Ptr, val |-> sds.Value])

(***************************************************************************)
(* C9: a whole-value accessor makes one iterator, calls Next until it      *)
(* reports exhaustion, returns exactly what Next yielded (in yield order   *)
(* for a List, as a mapping for the others), and releases the iterator     *)
(* exactly once, after the exhausted Next and before it returns.           *)
(***************************************************************************)
C9_AccessorDrainsAndReleases ==
    acc.phase = "returned" =>
        LET y == acc.res.yielded
            o == acc.obj
        IN  /\ acc.res.c.log = DrainLog(Len(o.data))
            /\ ~acc.res.c.live
            /\ Len(y) = Len(o.data)
            /\ o.type \in {OBJ_LIST, OBJ_SET} =>
                    \A i \in 1..Len(y) : y[i] = SdsFields(o.data[i])
            /\ o.type = OBJ_HASH =>
                    \A i \in 1..Len(y) : y[i] = <<SdsFields(o.data[i][1]), SdsFields(o.data[i][2])>>
            /\ o.type = OBJ_ZSET =>
                    \A i \in 1..Len(y) : y[i] = <<SdsFields(o.data[i][1]), o.data[i][2]>>
            /\ o.type = OBJ_LIST =>
                    acc.res.val = [i \in 1..Len(y) |-> SdsText(y[i])]
            /\ o.type = OBJ_SET =>
                    /\ DOMAIN acc.res.val = {SdsText(y[i]) : i \in 1..Len(y)}
                    /\ \A k \in DOMAIN acc.res.val : acc.res.val[k] = TRUE
            /\ o.type = OBJ_HASH =>
                    /\ DOMAIN acc.res.val = {SdsText(y[i][1]) : i \in 1..Len(y)}
                    /\ \A k \in DOMAIN acc.res.val :
                            acc.res.val[k] = SdsText(LastYielded(y, k)[2])
            /\ o.type = OBJ_ZSET =>
                    /\ DOMAIN acc.res.val = {SdsText(y[i][1]) : i \in 1..Len(y)}
                    /\ \A k \in DOMAIN acc.res.val : acc.res.val[k] = LastYielded(y, k)[2]

C9_Witness ==
    /\ acc.phase = "returned" /\ acc.name = "UnsafeMap"
    /\ acc.obj.type = OBJ_HASH
    /\ Len(acc.res.yielded) = 2
    /\ acc.res.c.log = <<"new", "next", "next", "next", "release">>

(***************************************************************************)
(* The reference-count scenario: holders of one value hand it on           *)
(* (IncrRefCount) and let it go (DecrRefCount), each exactly once.         *)
(***************************************************************************)
Holders == 1..MaxHolders

\* The C object header: the count, and whether the object has been freed.
redisObjectRefCount(o) == o.refcount

redisObjectIncrRefCount(o) ==
    IF o.freed THEN [o EXCEPT !.uaf = TRUE] ELSE [o EXCEPT !.refcount = @ + 1]

redisObjectDecrRefCount(o) ==
    IF o.freed THEN [o EXCEPT !.uaf = TRUE]
    ELSE IF o.refcount = 1 THEN [o EXCEPT !.refcount = 0, !.freed = TRUE]
    ELSE [o EXCEPT !.refcount = @ - 1]

RefCount(o) == redisObjectRefCount(o)

IncrRefCountDropped(o) == o

IncrRefCount(o) == redisObjectIncrRefCount(o)

DecrRefCount(o) == redisObjectDecrRefCount(o)

InitRef ==
    /\ \E h \in Holders :
        rc = [phase |-> "ref", obj |-> [refcount |-> 1, freed |-> FALSE, uaf |-> FALSE],
              holders |-> {h}, incs |-> 0, decs |-> 0, seen |-> 1]
    /\ loader = Idle /\ ret = NoCall
    /\ pv = Idle /\ it = Idle /\ acc = Idle /\ sv = Idle

\* Holder h hands the value to g, who becomes a holder.
HandOff ==
    /\ rc.phase = "ref" /\ rc.incs + rc.decs < MaxRefOps
    /\ \E h \in rc.holders, g \in Holders \ rc.holders :
        rc' = [rc EXCEPT !.obj = IncrRefCount(@), !.holders = @ \cup {g}, !.incs = @ + 1]
    /\ UNCHANGED <<loader, ret, pv, it, acc, sv>>

\* Holder h is finished with the value.
LetGo ==
    /\ rc.phase = "ref" /\ rc.incs + rc.decs < MaxRefOps
    /\ \E h \in rc.holders :
        rc' = [rc EXCEPT !.obj = DecrRefCount(@), !.holders = @ \ {h}, !.decs = @ + 1]
    /\ UNCHANGED <<loader, ret, pv, it, acc, sv>>

\* A holder reads the count.
ReadCount ==
    /\ rc.phase = "ref"
    /\ \E h \in rc.holders :
        rc' = [rc EXCEPT !.seen = RefCount(rc.obj),
                         !.obj = IF @.freed THEN [@ EXCEPT !.uaf = TRUE] ELSE @]
    /\ UNCHANGED <<loader, ret, pv, it, acc, sv>>

NextRef == HandOff \/ LetGo \/ ReadCount

SpecRef == InitRef /\ [][NextRef]_vars

IntSet == {-12345, -129, -1, 0, 7, 10, 300, 12345}

TextSet == SeqsUpTo({45, 48, 49, 97}, MaxText)

InitSds ==
    /\ \E v \in {BytesValue(t) : t \in TextSet} \cup {IntValue(n) : n \in IntSet} :
        sv = [phase |-> "sds", obj |-> createStringObject(v),
              str |-> Nil, ustr |-> Nil]
    /\ loader = Idle /\ ret = NoCall
    /\ pv = Idle /\ it = Idle /\ acc = Idle /\ rc = Idle

CallString ==
    /\ sv.phase = "sds" /\ sv.str = Nil
    /\ sv' = [sv EXCEPT !.str = Ref(StringObjectString(sv.obj))]
    /\ UNCHANGED <<loader, ret, pv, it, acc, rc>>

CallUnsafeString ==
    /\ sv.phase = "sds" /\ sv.ustr = Nil
    /\ sv' = [sv EXCEPT !.ustr = Ref(StringObjectUnsafeString(sv.obj))]
    /\ UNCHANGED <<loader, ret, pv, it, acc, rc>>

NextSds == CallString \/ CallUnsafeString

SpecSds == InitSds /\ [][NextSds]_vars

\* s is the canonical decimal text of an integer.
IsDecimal(s) ==
    LET digits == IF s # <<>> /\ Head(s) = 45 THEN Tail(s) ELSE s
    IN  /\ IsDigits(digits)
        /\ Len(digits) > 1 => Head(digits) # 48
        /\ digits = <<48>> => s = digits

(***************************************************************************)
(* C6: String() and UnsafeString() of one string value give the same text; *)
(* when the value is stored as an integer both give its decimal rendering  *)
(* (12345 reads "12345"), otherwise both give the stored bytes.            *)
(***************************************************************************)
C6_ViewsAgree ==
    (sv.phase = "sds" /\ sv.str # Nil /\ sv.ustr # Nil) =>
        LET s == Deref(sv.str)
            u == Deref(sv.ustr)
            rv == sv.obj.data
        IN  /\ s = u
            /\ rv.ptr # Nil => s = Deref(rv.ptr)
            /\ rv.ptr = Nil => (IsDecimal(s) /\ ParseInt(s) = rv.val)
            /\ rv = IntValue(12345) => s = <<49, 50, 51, 52, 53>>

C6_Witness ==
    /\ sv.phase = "sds" /\ sv.str # Nil /\ sv.ustr # Nil
    /\ sv.obj.data = IntValue(-129)
    /\ Deref(sv.ustr) = <<45, 49, 50, 57>>
====
